---- MODULE Spec2Model ----
(***************************************************************************)
(* Model of the two CDK constructs of the repository:                      *)
(*   - SecureWebsite (spa-construct/lib/constructs): the constructor       *)
(*     declares the resources of a static web site one after the other;    *)
(*   - AccountConfigStack (account-config/lib/account-config-stack.ts):    *)
(*     reads a context file, selects one account record and publishes      *)
(*     one parameter per key.                                              *)
(* Each constructor is modelled statement by statement: pc / apc is the    *)
(* position in the constructor body, graph is the list of constructs       *)
(* declared so far, in declaration order.                                  *)
(*                                                                         *)
(* Optional values (a TypeScript `x?: T`) are sequences of length <= 1:    *)
(* <<>> is undefined, <<v>> is the value v.                                *)
(***************************************************************************)
EXTENDS Integers, Sequences, FiniteSets, TLC

VARIABLES
    props,          \* SecureWebsiteProps handed to the constructor
    pc,             \* position in SecureWebsite.constructor
    ruleIdx,        \* index of the next rule inside rules.map (createWebAcl)
    wafRules,       \* RuleProperty list built so far by rules.map
    graph,          \* constructs declared so far, in declaration order
    hostedZone,     \* this.hostedZone
    bucket,         \* this.bucket
    logsBucket,     \* this.logsBucket
    ipSets,         \* the CfnIPSet constructs declared by createWafStatement
    webAcl,         \* this.webAcl
    distribution,   \* this.distribution
    deployment,     \* this.deployment
    outputs,        \* the CfnOutput constructs, in declaration order
    aprops,         \* AccountConfigStackProps handed to the constructor
    stackAccount,   \* this.account, the account of the stack's environment
    source,         \* the context file on disk
    apc,            \* position in AccountConfigStack.constructor
    accountId,      \* this.accountId
    parameterPrefix,\* the local parameterPrefix
    config,         \* this.config: <<key, value>> pairs in key order
    uploadIdx,      \* index of the next entry of Object.entries(this.config)
    parameters,     \* this.parameters, in insertion order
    aoutputs,       \* the CfnOutput constructs of the stack
    thrown,         \* the error the constructor threw, if any
    ret             \* the outcome of the last public method call

webVars == <<props, pc, ruleIdx, wafRules, graph, hostedZone, bucket, logsBucket,
             ipSets, webAcl, distribution, deployment, outputs>>

acctVars == <<aprops, stackAccount, source, apc, accountId, parameterPrefix, config,
              uploadIdx, parameters, aoutputs, thrown, ret>>

vars == <<webVars, acctVars>>

----------------------------------------------------------------------------
(* Optional values and JavaScript truthiness                               *)

None == <<>>
Some(x) == <<x>>
IsSome(o) == Len(o) = 1
Get(o) == o[1]

\* `s || d` for a string-typed optional: undefined and '' are falsy
OrStr(o, d) == IF IsSome(o) /\ Get(o) # "" THEN Get(o) ELSE d
TruthyStr(o) == IsSome(o) /\ Get(o) # ""
\* `b` used as a condition, for a boolean-typed optional
TruthyBool(o) == IsSome(o) /\ Get(o) = TRUE

RECURSIVE Join(_, _)
\* Array.prototype.join
Join(seq, sep) ==
    IF Len(seq) = 0 THEN ""
    ELSE IF Len(seq) = 1 THEN seq[1]
    ELSE seq[1] \o sep \o Join(Tail(seq), sep)

----------------------------------------------------------------------------
(* WafRule inputs                                                          *)

\* WafRule.configuration: every field optional
Cfg(limit, countryCodes, name, ipAddresses) ==
    [limit |-> limit, countryCodes |-> countryCodes, name |-> name,
     ipAddresses |-> ipAddresses]

WafRule(name, priority, action, ruleType, configuration) ==
    [name |-> name, priority |-> priority, action |-> action,
     ruleType |-> ruleType, configuration |-> configuration]

\* rule.configuration?.f
CfgField(rule, f) ==
    IF IsSome(rule.configuration) THEN Get(rule.configuration)[f] ELSE None

DefaultLimit == 2000
DefaultManagedRuleGroup == "AWSManagedRulesCommonRuleSet"
DefaultCountryCodes == <<"CN", "RU">>

getDefaultWafRules ==
    << WafRule("AWSManagedRulesCommonRuleSet", 1, "BLOCK", "MANAGED_RULE",
               Some(Cfg(None, None, Some("AWSManagedRulesCommonRuleSet"), None))),
       WafRule("AWSManagedRulesKnownBadInputsRuleSet", 2, "BLOCK", "MANAGED_RULE",
               Some(Cfg(None, None, Some("AWSManagedRulesKnownBadInputsRuleSet"), None))),
       WafRule("AWSManagedRulesLinuxRuleSet", 3, "BLOCK", "MANAGED_RULE",
               Some(Cfg(None, None, Some("AWSManagedRulesLinuxRuleSet"), None))),
       WafRule("RateLimitRule", 10, "BLOCK", "RATE_LIMIT",
               Some(Cfg(Some(2000), None, None, None))) >>

----------------------------------------------------------------------------
(* Firewall rule translation                                               *)

\* createWafAction whose default case blocks
createWafAction_DefaultBlock(action) ==
    CASE action = "ALLOW" -> "allow"
      [] action = "BLOCK" -> "block"
      [] action = "COUNT" -> "count"
      [] OTHER -> "block"

createWafAction(action) ==
    CASE action = "ALLOW" -> "allow"
      [] action = "BLOCK" -> "block"
      [] action = "COUNT" -> "count"
      [] OTHER -> "allow"

\* logical id and ARN token of the CfnIPSet declared for an IP_SET rule
IPSetId(rule) == "IPSet-" \o rule.name
AttrArn(id) == "arn:" \o id

\* a match statement; the fields a statement kind does not carry are left
\* at 0 / "" / <<>>
Statement(kind, limit, name, countryCodes, arn) ==
    [kind |-> kind, limit |-> limit, name |-> name,
     countryCodes |-> countryCodes, arn |-> arn]

\* `rule.configuration?.limit || 2000`: undefined and 0 are falsy
RateLimitOf(rule) ==
    LET l == CfgField(rule, "limit")
    IN  IF IsSome(l) /\ Get(l) # 0 THEN Get(l) ELSE DefaultLimit

\* the statement returned by createWafStatement (the CfnIPSet it declares
\* for an IP_SET rule is declared by the action MapRule)
createWafStatement(rule) ==
    CASE rule.ruleType = "RATE_LIMIT" ->
            Statement("rateBasedStatement", RateLimitOf(rule), "", <<>>, "")
      [] rule.ruleType = "MANAGED_RULE" ->
            Statement("managedRuleGroupStatement", 0,
                      OrStr(CfgField(rule, "name"), DefaultManagedRuleGroup), <<>>, "")
      [] rule.ruleType = "GEO_BLOCK" ->
            Statement("geoMatchStatement", 0, "",
                      IF IsSome(CfgField(rule, "countryCodes"))
                      THEN Get(CfgField(rule, "countryCodes"))
                      ELSE DefaultCountryCodes, "")
      [] rule.ruleType = "IP_SET" ->
            Statement("ipSetReferenceStatement", 0, "", <<>>, AttrArn(IPSetId(rule)))
      [] OTHER ->
            Statement("managedRuleGroupStatement", 0, DefaultManagedRuleGroup, <<>>, "")

\* a CfnIPSet that is always declared without addresses
IPSetAddresses_Empty(rule) == <<>>

\* addresses of the CfnIPSet: `rule.configuration?.ipAddresses || []`
IPSetAddresses(rule) ==
    IF IsSome(CfgField(rule, "ipAddresses"))
    THEN Get(CfgField(rule, "ipAddresses")) ELSE <<>>

\* one element of rules.map in createWebAcl
RuleProperty(rule) ==
    [name |-> rule.name,
     priority |-> rule.priority,
     action |-> createWafAction(rule.action),
     statement |-> createWafStatement(rule),
     metricName |-> rule.name]

----------------------------------------------------------------------------
(* SecureWebsite.constructor                                               *)

\* a declared construct: its logical id, its kind and the ids of the
\* constructs whose attributes its properties read
Resource(id, kind, refs) == [id |-> id, kind |-> kind, refs |-> refs]

\* domainName is kept as its dot-separated labels; no string splits into zero
\* labels, so <<>> stands for an undefined domainName
Missing(domainName) == domainName = <<>>

\* the domain name inside a string: the join of its labels, and "undefined"
\* for `${undefined}`
DomainString(domainName) ==
    IF Missing(domainName) THEN "undefined" ELSE Join(domainName, ".")

\* getApexDomain that drops the first label only: parts.slice(1).join('.')
getApexDomain_DropFirst(domainName) ==
    IF Len(domainName) >= 2
    THEN Join(SubSeq(domainName, 2, Len(domainName)), ".")
    ELSE DomainString(domainName)

\* parts.slice(-2).join('.') when there are at least two labels
getApexDomain(domainName) ==
    IF Len(domainName) >= 2
    THEN Join(SubSeq(domainName, Len(domainName) - 1, Len(domainName)), ".")
    ELSE DomainString(domainName)

\* `props.removalPolicy || RemovalPolicy.DESTROY`
ResolvedRemovalPolicy(p) == OrStr(p.removalPolicy, "destroy")
\* `props.removalPolicy === RemovalPolicy.DESTROY`
AutoDeleteObjects(p) == IsSome(p.removalPolicy) /\ Get(p.removalPolicy) = "destroy"

\* RulesArg that takes an empty list for an absent one
RulesArg_EmptyIsAbsent(p) ==
    IF IsSome(p.wafRules) /\ Len(Get(p.wafRules)) > 0
    THEN Get(p.wafRules) ELSE getDefaultWafRules

\* the rule list handed to createWebAcl: `props.wafRules || this.getDefaultWafRules()`
\* (an array, even an empty one, is truthy)
RulesArg(p) == IF IsSome(p.wafRules) THEN Get(p.wafRules) ELSE getDefaultWafRules

\* WafEnabled as `if (props.enableWaf)`: an absent flag disables the firewall
WafEnabled_Truthy(p) == TruthyBool(p.enableWaf)

\* `props.enableWaf !== false`
WafEnabled(p) == ~(IsSome(p.enableWaf) /\ Get(p.enableWaf) = FALSE)

\* DeploysContent as `props.codeSourcePath !== null`: true of an absent path
DeploysContent_NotNull(p) == TRUE

\* `if (props.codeSourcePath)`
DeploysContent(p) == TruthyStr(p.codeSourcePath)

\* the statements of the constructor body, in program order
Statements ==
    << "zone", "cert", "bucket", "logs", "oac", "waf", "dist", "policy",
       "arecord", "aaaarecord", "deploy", "outputs", "done" >>

\* PcAfter with the access grant written before the distribution it names
PcAfter_GrantFirst(s) ==
    LET order == << "zone", "cert", "bucket", "logs", "oac", "waf", "policy", "dist",
                    "arecord", "aaaarecord", "deploy", "outputs", "done" >>
        i == CHOOSE k \in 1..Len(order) : order[k] = s
    IN  order[i + 1]

\* the statement that follows statement s
PcAfter(s) ==
    LET i == CHOOSE k \in 1..Len(Statements) : Statements[k] = s
    IN  Statements[i + 1]

\* `domainName.split('.')` in getApexDomain throws a TypeError for an
\* undefined domainName; getApexDomain is called only without hostedZoneId
ApexThrows(p) == ~TruthyStr(p.hostedZoneId) /\ Missing(p.domainName)

\* Every later statement that reads props.domainName hands it to a construct
\* of the library or puts it into a string; no statement of the source tests
\* it, and the declarations are recorded as written.
CreateHostedZone ==
    /\ pc = "zone"
    /\ IF ApexThrows(props)
       THEN /\ pc' = "failed"
            /\ UNCHANGED <<hostedZone, graph>>
       ELSE /\ hostedZone' =
                 IF TruthyStr(props.hostedZoneId)
                 THEN Some([how |-> "fromHostedZoneId", arg |-> Get(props.hostedZoneId)])
                 ELSE Some([how |-> "fromLookup", arg |-> getApexDomain(props.domainName)])
            /\ graph' = Append(graph, Resource("HostedZone", "zone", {}))
            /\ pc' = PcAfter("zone")
    /\ UNCHANGED acctVars
    /\ UNCHANGED <<props, ruleIdx, wafRules, bucket, logsBucket, ipSets, webAcl,
                   distribution, deployment, outputs>>

CreateCertificate ==
    /\ pc = "cert"
    /\ graph' = Append(graph, Resource("Certificate", "certificate", {"HostedZone"}))
    /\ pc' = PcAfter("cert")
    /\ UNCHANGED acctVars
    /\ UNCHANGED <<props, ruleIdx, wafRules, hostedZone, bucket, logsBucket, ipSets,
                   webAcl, distribution, deployment, outputs>>

CreateBucket ==
    /\ pc = "bucket"
    /\ bucket' = Some([bucketName |-> props.bucketName,
                       removalPolicy |-> ResolvedRemovalPolicy(props),
                       autoDeleteObjects |-> AutoDeleteObjects(props),
                       versioned |-> TRUE])
    /\ graph' = Append(graph, Resource("WebsiteBucket", "bucket", {}))
    /\ pc' = PcAfter("bucket")
    /\ UNCHANGED acctVars
    /\ UNCHANGED <<props, ruleIdx, wafRules, hostedZone, logsBucket, ipSets, webAcl,
                   distribution, deployment, outputs>>

CreateLogsBucket ==
    /\ pc = "logs"
    /\ IF TruthyBool(props.enableLogging)
       THEN /\ logsBucket' = Some([bucketName |-> props.logsBucketName,
                                   removalPolicy |-> ResolvedRemovalPolicy(props),
                                   autoDeleteObjects |-> AutoDeleteObjects(props),
                                   expirationDays |-> 90])
            /\ graph' = Append(graph, Resource("LogsBucket", "bucket", {}))
       ELSE UNCHANGED <<logsBucket, graph>>
    /\ pc' = PcAfter("logs")
    /\ UNCHANGED acctVars
    /\ UNCHANGED <<props, ruleIdx, wafRules, hostedZone, bucket, ipSets, webAcl,
                   distribution, deployment, outputs>>

CreateOAC ==
    /\ pc = "oac"
    /\ graph' = Append(graph, Resource("OAC", "oac", {}))
    /\ pc' = PcAfter("oac")
    /\ UNCHANGED acctVars
    /\ UNCHANGED <<props, ruleIdx, wafRules, hostedZone, bucket, logsBucket, ipSets,
                   webAcl, distribution, deployment, outputs>>

\* `if (props.enableWaf !== false)`: enter createWebAcl or skip it
EnterWaf ==
    /\ pc = "waf"
    /\ IF WafEnabled(props)
       THEN pc' = "rules" /\ ruleIdx' = 1
       ELSE pc' = PcAfter("waf") /\ UNCHANGED ruleIdx
    /\ UNCHANGED acctVars
    /\ UNCHANGED <<props, wafRules, graph, hostedZone, bucket, logsBucket, ipSets,
                   webAcl, distribution, deployment, outputs>>

\* one iteration of rules.map in createWebAcl: createWafStatement declares the
\* CfnIPSet of an IP_SET rule, then the RuleProperty is appended.  The id of
\* the CfnIPSet is derived from the rule's name; what the constructs library
\* does with an id used twice in one scope is outside the source and is not
\* modelled: the declaration is recorded as written.
MapRule ==
    /\ pc = "rules"
    /\ ruleIdx <= Len(RulesArg(props))
    /\ LET rule == RulesArg(props)[ruleIdx]
       IN  /\ IF rule.ruleType = "IP_SET"
              THEN /\ ipSets' = Append(ipSets, [id |-> IPSetId(rule),
                                                 addresses |-> IPSetAddresses(rule)])
                   /\ graph' = Append(graph, Resource(IPSetId(rule), "ipset", {}))
              ELSE UNCHANGED <<ipSets, graph>>
           /\ wafRules' = Append(wafRules, RuleProperty(rule))
    /\ ruleIdx' = ruleIdx + 1
    /\ UNCHANGED acctVars
    /\ UNCHANGED <<props, pc, hostedZone, bucket, logsBucket, webAcl, distribution,
                   deployment, outputs>>

\* the ids of the CfnIPSet constructs the statements of a rule list refer to
IPSetRefs(rules) ==
    { "IPSet-" \o rules[i].name :
        i \in { k \in 1..Len(rules) :
                  rules[k].statement.kind = "ipSetReferenceStatement" } }

\* `new wafv2.CfnWebACL(this, 'WebACL', ...)` once rules.map is over
CreateWebAcl ==
    /\ pc = "rules"
    /\ ruleIdx > Len(RulesArg(props))
    /\ webAcl' = Some([defaultAction |-> "allow", rules |-> wafRules,
                       metricName |-> "SecureWebsiteWAF"])
    /\ graph' = Append(graph, Resource("WebACL", "webacl", IPSetRefs(wafRules)))
    /\ pc' = PcAfter("waf")
    /\ UNCHANGED acctVars
    /\ UNCHANGED <<props, ruleIdx, wafRules, hostedZone, bucket, logsBucket, ipSets,
                   distribution, deployment, outputs>>

\* the constructs the Distribution's properties read
DistributionRefs ==
    {"WebsiteBucket", "OAC", "Certificate"}
        \cup (IF IsSome(webAcl) THEN {"WebACL"} ELSE {})
        \cup (IF IsSome(logsBucket) THEN {"LogsBucket"} ELSE {})

CreateDistribution ==
    /\ pc = "dist"
    /\ distribution' =
         Some([domainNames |-> <<DomainString(props.domainName)>>
                                  \o props.subjectAlternativeNames,
               defaultRootObject |-> OrStr(props.indexDocument, "index.html"),
               comment |-> OrStr(props.distributionComment,
                                 "Secure website for " \o DomainString(props.domainName)),
               webAclId |-> IF IsSome(webAcl) THEN Some(AttrArn("WebACL")) ELSE None,
               enableLogging |-> props.enableLogging,
               logBucket |-> IF IsSome(logsBucket) THEN Some("LogsBucket") ELSE None])
    /\ graph' = Append(graph, Resource("Distribution", "distribution", DistributionRefs))
    /\ pc' = PcAfter("dist")
    /\ UNCHANGED acctVars
    /\ UNCHANGED <<props, ruleIdx, wafRules, hostedZone, bucket, logsBucket, ipSets,
                   webAcl, deployment, outputs>>

\* this.bucket.addToResourcePolicy(...): the statement names the bucket's ARN
\* and the distribution's id
GrantAccess ==
    /\ pc = "policy"
    /\ graph' = Append(graph, Resource("WebsiteBucketPolicy", "bucketPolicy",
                                       {"WebsiteBucket", "Distribution"}))
    /\ pc' = PcAfter("policy")
    /\ UNCHANGED acctVars
    /\ UNCHANGED <<props, ruleIdx, wafRules, hostedZone, bucket, logsBucket, ipSets,
                   webAcl, distribution, deployment, outputs>>

CreateARecord ==
    /\ pc = "arecord"
    /\ graph' = Append(graph, Resource("ARecord", "record", {"HostedZone", "Distribution"}))
    /\ pc' = PcAfter("arecord")
    /\ UNCHANGED acctVars
    /\ UNCHANGED <<props, ruleIdx, wafRules, hostedZone, bucket, logsBucket, ipSets,
                   webAcl, distribution, deployment, outputs>>

CreateAaaaRecord ==
    /\ pc = "aaaarecord"
    /\ graph' = Append(graph, Resource("AaaaRecord", "record",
                                       {"HostedZone", "Distribution"}))
    /\ pc' = PcAfter("aaaarecord")
    /\ UNCHANGED acctVars
    /\ UNCHANGED <<props, ruleIdx, wafRules, hostedZone, bucket, logsBucket, ipSets,
                   webAcl, distribution, deployment, outputs>>

CreateDeployment ==
    /\ pc = "deploy"
    /\ IF DeploysContent(props)
       THEN /\ deployment' = Some([source |-> props.codeSourcePath,
                                   prune |-> TRUE, retainOnDelete |-> FALSE])
            /\ graph' = Append(graph, Resource("WebsiteDeployment", "deployment",
                                               {"WebsiteBucket", "Distribution"}))
       ELSE UNCHANGED <<deployment, graph>>
    /\ pc' = PcAfter("deploy")
    /\ UNCHANGED acctVars
    /\ UNCHANGED <<props, ruleIdx, wafRules, hostedZone, bucket, logsBucket, ipSets,
                   webAcl, distribution, outputs>>

\* an output: its name, its value and the construct the value is read from
Output(name, value, ref) == [name |-> name, value |-> value, ref |-> ref]

\* the CfnOutputs of createOutputs, in declaration order
ProjectedOutputs ==
    << Output("WebsiteUrl", "https://" \o DomainString(props.domainName), None),
       Output("BucketName", "name:WebsiteBucket", Some("WebsiteBucket")),
       Output("DistributionId", "id:Distribution", Some("Distribution")),
       Output("CertificateArn", AttrArn("Certificate"), Some("Certificate")) >>
    \o (IF IsSome(webAcl)
        THEN << Output("WebAclArn", AttrArn("WebACL"), Some("WebACL")) >> ELSE <<>>)
    \o (IF IsSome(logsBucket)
        THEN << Output("LogsBucketName", "name:LogsBucket", Some("LogsBucket")) >>
        ELSE <<>>)

OutputResource(o) ==
    Resource(o.name, "output", IF IsSome(o.ref) THEN {Get(o.ref)} ELSE {})

RECURSIVE AppendAll(_, _)
AppendAll(g, rs) ==
    IF rs = <<>> THEN g ELSE AppendAll(Append(g, Head(rs)), Tail(rs))

CreateOutputs ==
    /\ pc = "outputs"
    /\ outputs' = ProjectedOutputs
    /\ graph' = AppendAll(graph, [i \in 1..Len(ProjectedOutputs) |->
                                     OutputResource(ProjectedOutputs[i])])
    /\ pc' = PcAfter("outputs")
    /\ UNCHANGED acctVars
    /\ UNCHANGED <<props, ruleIdx, wafRules, hostedZone, bucket, logsBucket, ipSets,
                   webAcl, distribution, deployment>>

WebNext ==
    \/ CreateHostedZone
    \/ CreateCertificate
    \/ CreateBucket
    \/ CreateLogsBucket
    \/ CreateOAC
    \/ EnterWaf
    \/ MapRule
    \/ CreateWebAcl
    \/ CreateDistribution
    \/ GrantAccess
    \/ CreateARecord
    \/ CreateAaaaRecord
    \/ CreateDeployment
    \/ CreateOutputs

----------------------------------------------------------------------------
(* JSON values of the context file                                         *)

\* a JSON value, tagged by its JavaScript type; the fields a type does not
\* carry are left at "" / 0 / <<>>.  "undefined" is no JSON value: it is what
\* a property read of an absent key yields.
JVal(t, s, n, a) == [t |-> t, s |-> s, n |-> n, a |-> a]
JStr(s) == JVal("string", s, 0, <<>>)
JNum(n) == JVal("number", "", n, <<>>)
JArr(a) == JVal("array", "", 0, a)
JNull == JVal("null", "", 0, <<>>)
JUndef == JVal("undefined", "", 0, <<>>)
\* a member of Object.prototype, as a property read yields it
JFun(name) == JVal("function", name, 0, <<>>)

\* the names every object literal and every JSON.parse result inherits from
\* Object.prototype; one of them stands for all (toString, valueOf,
\* hasOwnProperty, ... are read the same way)
ObjectPrototype == {"constructor"}

Quote(s) == "\"" \o s \o "\""

\* JSON.stringify of a number, of null and of an array of strings
JSONstringify(v) ==
    CASE v.t = "number" -> ToString(v.n)
      [] v.t = "null" -> "null"
      [] v.t = "array" -> "[" \o Join([i \in 1..Len(v.a) |-> Quote(v.a[i])], ",") \o "]"
      [] v.t = "string" -> Quote(v.s)

\* StringValue that serializes strings too
StringValue_AlwaysJson(v) == JSONstringify(v)

\* `typeof value === 'string' ? value : JSON.stringify(value)`
StringValue(v) == IF v.t = "string" THEN v.s ELSE JSONstringify(v)

\* a record is a sequence of <<key, value>> pairs with distinct keys, in the
\* record's key order
KeysOf(rec) == [i \in 1..Len(rec) |-> rec[i][1]]       \* Object.keys
HasKey(rec, k) == \E i \in 1..Len(rec) : rec[i][1] = k
\* rec[k]: the value of an own key, else the inherited member of that name,
\* else undefined
Lookup(rec, k) ==
    IF HasKey(rec, k)
    THEN rec[CHOOSE i \in 1..Len(rec) : rec[i][1] = k][2]
    ELSE IF k \in ObjectPrototype THEN JFun(k) ELSE JUndef

----------------------------------------------------------------------------
(* AccountConfigStack.constructor                                          *)

\* an error object; message is the list of the pieces of its template
Error(name, code, message) == [name |-> name, code |-> code, message |-> message]
\* `${error}`
ErrorToString(e) == <<e.name, ": ">> \o e.message

\* what fs.readFileSync throws for a file it cannot read
ReadFailure(path) ==
    Error("Error", "ENOENT", <<"ENOENT: no such file or directory, open '", path, "'">>)
\* what JSON.parse throws for a text that is no JSON
ParseFailure == Error("SyntaxError", "", <<"Unexpected token in JSON">>)

\* the error of the catch block around readFileSync and JSON.parse
WrapError(path, cause) ==
    Error("Error", "",
          <<"Failed to read or parse context file at ", path, ": ">>
              \o ErrorToString(cause))

\* Array.prototype.join kept as pieces
RECURSIVE JoinPieces(_, _)
JoinPieces(seq, sep) ==
    IF Len(seq) = 0 THEN <<>>
    ELSE IF Len(seq) = 1 THEN <<seq[1]>>
    ELSE <<seq[1], sep>> \o JoinPieces(Tail(seq), sep)

\* AccountNotFound without the list of available accounts
AccountNotFound_NoList(id, accounts) ==
    Error("Error", "", <<"No configuration found for account ID '", id, "'">>)

AccountNotFound(id, accounts) ==
    Error("Error", "",
          <<"No configuration found for account ID '", id, "'. Available accounts: ">>
              \o JoinPieces(accounts, ", "))

ParameterNotFound(key, keys) ==
    Error("Error", "",
          <<"Parameter '", key, "' not found. Available parameters: ">>
              \o JoinPieces(keys, ", "))

ContextFilePath == OrStr(aprops.contextFilePath, "cdk.context.json")

\* lines 26-29: this.accountId and parameterPrefix
ResolveIds ==
    /\ apc = "begin"
    /\ accountId' = OrStr(aprops.accountId, stackAccount)
    /\ parameterPrefix' =
         OrStr(aprops.parameterPrefix,
               "/account-config/" \o OrStr(aprops.accountId, stackAccount))
    /\ apc' = "read"
    /\ UNCHANGED webVars
    /\ UNCHANGED <<aprops, stackAccount, source, config, uploadIdx, parameters,
                   aoutputs, thrown, ret>>

\* ReadOutcome without the catch block: the cause is thrown as it is
ReadOutcome_Unwrapped ==
    IF ~source.readable THEN Some(ReadFailure(ContextFilePath))
    ELSE IF ~source.wellFormed THEN Some(ParseFailure)
    ELSE None

\* the outcome of the try block: the error thrown, if any
ReadOutcome ==
    IF ~source.readable THEN Some(WrapError(ContextFilePath, ReadFailure(ContextFilePath)))
    ELSE IF ~source.wellFormed THEN Some(WrapError(ContextFilePath, ParseFailure))
    ELSE None

\* lines 31-38: read and parse the context file
ReadAndParse ==
    /\ apc = "read"
    /\ thrown' = ReadOutcome
    /\ apc' = IF IsSome(ReadOutcome) THEN "failed" ELSE "check"
    /\ UNCHANGED webVars
    /\ UNCHANGED <<aprops, stackAccount, source, accountId, parameterPrefix, config,
                   uploadIdx, parameters, aoutputs, ret>>

\* accountsContext, once parsed: <<account id, record>> pairs in key order
AccountsContext == source.mapping

\* lines 40-44: `if (!accountsContext[this.accountId]) throw ...`; a record is
\* an object, hence truthy
SelectAccount ==
    /\ apc = "check"
    /\ IF HasKey(AccountsContext, accountId)
       THEN /\ config' = AccountsContext[CHOOSE i \in 1..Len(AccountsContext) :
                                             AccountsContext[i][1] = accountId][2]
            /\ uploadIdx' = 1
            /\ apc' = "upload"
            /\ UNCHANGED thrown
       ELSE /\ thrown' = Some(AccountNotFound(accountId, KeysOf(AccountsContext)))
            /\ apc' = "failed"
            /\ UNCHANGED <<config, uploadIdx>>
    /\ UNCHANGED webVars
    /\ UNCHANGED <<aprops, stackAccount, source, accountId, parameterPrefix,
                   parameters, aoutputs, ret>>

\* the StringParameter declared for one entry of the record
Parameter(prefix, key, value) ==
    [key |-> key,
     parameterName |-> prefix \o "/" \o key,
     stringValue |-> StringValue(value)]

\* this.parameters[key] = p, for a key not yet present or present
SetParameter(ps, p) ==
    IF \E i \in 1..Len(ps) : ps[i].key = p.key
    THEN [i \in 1..Len(ps) |-> IF ps[i].key = p.key THEN p ELSE ps[i]]
    ELSE Append(ps, p)

\* one iteration of the forEach of uploadConfigToParameterStore
UploadEntry ==
    /\ apc = "upload"
    /\ uploadIdx <= Len(config)
    /\ parameters' = SetParameter(parameters,
                                  Parameter(parameterPrefix, config[uploadIdx][1],
                                            config[uploadIdx][2]))
    /\ uploadIdx' = uploadIdx + 1
    /\ UNCHANGED webVars
    /\ UNCHANGED <<aprops, stackAccount, source, apc, accountId, parameterPrefix,
                   config, aoutputs, thrown, ret>>

\* an output of the stack; key is the configuration key of a parameter's
\* output and "" for the three fixed outputs
AcctOutput(name, key, value) == [name |-> name, key |-> key, value |-> value]

\* createOutputs, entered once the forEach is over
CreateAcctOutputs ==
    /\ apc = "upload"
    /\ uploadIdx > Len(config)
    /\ aoutputs' =
         << AcctOutput("AccountId", "", accountId),
            AcctOutput("ParameterPrefix", "", parameterPrefix),
            AcctOutput("ConfigKeys", "", Join(KeysOf(config), ",")) >>
         \o [i \in 1..Len(parameters) |->
               AcctOutput("ParameterArn", parameters[i].key,
                          AttrArn(parameters[i].parameterName))]
    /\ apc' = "done"
    /\ UNCHANGED webVars
    /\ UNCHANGED <<aprops, stackAccount, source, accountId, parameterPrefix, config,
                   uploadIdx, parameters, thrown, ret>>

----------------------------------------------------------------------------
(* Public methods of AccountConfigStack                                    *)

\* the outcome of a call: the method and its arguments, then what it
\* returned (value, entry, keys or bool, by method) or the error it threw
Ret(op, key, dflt, value, entry, keys, bool, err) ==
    [op |-> op, key |-> key, dflt |-> dflt, value |-> value, entry |-> entry,
     keys |-> keys, bool |-> bool, err |-> err]
NoRet == Ret("none", "", JUndef, JUndef, None, <<>>, FALSE, None)

\* what this.parameters[key] yields for a name inherited from
\* Object.prototype: no StringParameter; it has no parameterName and no
\* stringValue (left "")
PrototypeMember(key) == [key |-> key, parameterName |-> "", stringValue |-> ""]

\* this.parameters[key]; this.parameters starts as the object literal {}
ParameterOf(ps, key) ==
    IF \E i \in 1..Len(ps) : ps[i].key = key
    THEN Some(ps[CHOOSE i \in 1..Len(ps) : ps[i].key = key])
    ELSE IF key \in ObjectPrototype THEN Some(PrototypeMember(key)) ELSE None

\* a JavaScript falsy value
Falsy(v) == v \in {JUndef, JNull, JNum(0), JStr("")}

\* getConfigValue as `this.config[key] || defaultValue`
getConfigValue_Or(cfg, key, defaultValue) ==
    IF ~Falsy(Lookup(cfg, key)) THEN Lookup(cfg, key) ELSE defaultValue

\* `this.config[key] !== undefined ? this.config[key] : defaultValue`
getConfigValue(cfg, key, defaultValue) ==
    IF Lookup(cfg, key) # JUndef THEN Lookup(cfg, key) ELSE defaultValue

\* `this.config[key] !== undefined`
hasConfig(cfg, key) == Lookup(cfg, key) # JUndef

getAllConfigKeys(cfg) == KeysOf(cfg)

LookupKeys == {"stage", "zone", "port", "missing", "constructor"}
Defaults == {JUndef, JStr("fallback")}

GetConfigValue ==
    /\ apc = "done"
    /\ \E k \in LookupKeys, d \in Defaults :
         ret' = Ret("getConfigValue", k, d, getConfigValue(config, k, d), None, <<>>,
                    FALSE, None)
    /\ UNCHANGED webVars
    /\ UNCHANGED <<aprops, stackAccount, source, apc, accountId, parameterPrefix,
                   config, uploadIdx, parameters, aoutputs, thrown>>

GetParameter ==
    /\ apc = "done"
    /\ \E k \in LookupKeys :
         ret' = IF IsSome(ParameterOf(parameters, k))
                THEN Ret("getParameter", k, JUndef, JUndef, ParameterOf(parameters, k),
                         <<>>, FALSE, None)
                ELSE Ret("getParameter", k, JUndef, JUndef, None, <<>>, FALSE,
                         Some(ParameterNotFound(k, [i \in 1..Len(parameters) |->
                                                       parameters[i].key])))
    /\ UNCHANGED webVars
    /\ UNCHANGED <<aprops, stackAccount, source, apc, accountId, parameterPrefix,
                   config, uploadIdx, parameters, aoutputs, thrown>>

\* `this.parameters[key].stringValue`: a TypeError for an absent key,
\* undefined for an inherited member
GetParameterValue ==
    /\ apc = "done"
    /\ \E k \in LookupKeys :
         ret' = IF IsSome(ParameterOf(parameters, k))
                THEN Ret("getParameterValue", k, JUndef,
                         IF ParameterOf(parameters, k) = Some(PrototypeMember(k))
                         THEN JUndef
                         ELSE JStr(Get(ParameterOf(parameters, k)).stringValue),
                         None, <<>>, FALSE, None)
                ELSE Ret("getParameterValue", k, JUndef, JUndef, None, <<>>, FALSE,
                         Some(Error("TypeError", "",
                                    <<"Cannot read properties of undefined">>)))
    /\ UNCHANGED webVars
    /\ UNCHANGED <<aprops, stackAccount, source, apc, accountId, parameterPrefix,
                   config, uploadIdx, parameters, aoutputs, thrown>>

HasConfig ==
    /\ apc = "done"
    /\ \E k \in LookupKeys :
         ret' = Ret("hasConfig", k, JUndef, JUndef, None, <<>>, hasConfig(config, k), None)
    /\ UNCHANGED webVars
    /\ UNCHANGED <<aprops, stackAccount, source, apc, accountId, parameterPrefix,
                   config, uploadIdx, parameters, aoutputs, thrown>>

GetAllConfigKeys ==
    /\ apc = "done"
    /\ ret' = Ret("getAllConfigKeys", "", JUndef, JUndef, None, getAllConfigKeys(config),
                  FALSE, None)
    /\ UNCHANGED webVars
    /\ UNCHANGED <<aprops, stackAccount, source, apc, accountId, parameterPrefix,
                   config, uploadIdx, parameters, aoutputs, thrown>>

AcctNext ==
    \/ ResolveIds
    \/ ReadAndParse
    \/ SelectAccount
    \/ UploadEntry
    \/ CreateAcctOutputs
    \/ GetConfigValue
    \/ GetParameter
    \/ GetParameterValue
    \/ HasConfig
    \/ GetAllConfigKeys

----------------------------------------------------------------------------
(* Inputs                                                                  *)

MaxRules == 2        \* longest rule list of Spec
MaxRichRules == 1    \* longest rule list of RuleSpec

BoundedSeq(S, n) == UNION { [1..k -> S] : k \in 0..n }

Domains == { <<"example", "com">>, <<"www", "myadvancedsite", "example", "com">> }

\* a few rules, three of them of type IP_SET (with addresses, without
\* configuration, with an empty address list), two of them with the same name
CoreRules ==
    { WafRule("a", 1, "BLOCK", "IP_SET", Some(Cfg(None, None, None, Some(<<"10.0.0.0/8">>)))),
      WafRule("b", 2, "ALLOW", "IP_SET", None),
      WafRule("d", 4, "BLOCK", "IP_SET", Some(Cfg(None, None, None, Some(<<>>)))),
      WafRule("c", 3, "COUNT", "RATE_LIMIT", Some(Cfg(Some(500), None, None, None))),
      WafRule("a", 1, "BLOCK", "GEO_BLOCK", None) }

\* rule type and configuration payloads
TypeConfigs ==
    { <<"RATE_LIMIT", None>>,
      <<"RATE_LIMIT", Some(Cfg(None, None, None, None))>>,
      <<"RATE_LIMIT", Some(Cfg(Some(500), None, None, None))>>,
      <<"RATE_LIMIT", Some(Cfg(Some(0), None, None, None))>>,
      <<"IP_SET", None>>,
      <<"IP_SET", Some(Cfg(None, None, None, Some(<<>>)))>>,
      <<"IP_SET", Some(Cfg(None, None, None, Some(<<"10.0.0.0/8", "192.168.0.1/32">>)))>>,
      <<"GEO_BLOCK", None>>,
      <<"GEO_BLOCK", Some(Cfg(None, Some(<<"XX", "YY">>), None, None))>>,
      <<"MANAGED_RULE", None>>,
      <<"MANAGED_RULE", Some(Cfg(None, None, Some("AWSManagedRulesLinuxRuleSet"), None))>>,
      <<"CUSTOM", None>> }

RichRules ==
    { WafRule(n, p, a, tc[1], tc[2]) :
        n \in {"a", "b"}, p \in {1, 7}, a \in {"ALLOW", "BLOCK", "COUNT", "DENY"},
        tc \in TypeConfigs }

\* the props of the constructor; the fields no statement of interest branches
\* on are left undefined
Props(domainName, hostedZoneId, enableWaf, enableLogging, rules, path, policy) ==
    [domainName |-> domainName, hostedZoneId |-> hostedZoneId,
     enableWaf |-> enableWaf, enableLogging |-> enableLogging, wafRules |-> rules,
     codeSourcePath |-> path, removalPolicy |-> policy,
     bucketName |-> None, logsBucketName |-> None, indexDocument |-> None,
     distributionComment |-> None, subjectAlternativeNames |-> <<>>]

OptBool == {None, Some(TRUE), Some(FALSE)}

WebProps ==
    { Props(d, z, w, l, r, c, rp) :
        d \in Domains, z \in {None, Some("Z1234567890123")},
        w \in OptBool, l \in OptBool,
        r \in {None} \cup { Some(rs) : rs \in BoundedSeq(CoreRules, MaxRules) },
        c \in {None, Some(""), Some("./src/website")},
        rp \in {None, Some("destroy"), Some("retain")} }

RuleProps ==
    { Props(<<"example", "com">>, None, w, None, r, None, None) :
        w \in {None, Some(TRUE)},
        r \in {None} \cup { Some(rs) : rs \in BoundedSeq(RichRules, MaxRichRules) } }

\* domain names of zero (undefined) to four labels
AllDomains ==
    Domains \cup { <<>>, <<"localhost">>, <<"mysite", "example", "com">> }

DomainProps ==
    { Props(d, z, w, l, r, c, None) :
        d \in AllDomains, z \in {None, Some(""), Some("Z1234567890123")},
        w \in {None, Some(FALSE)}, l \in {None, Some(TRUE)},
        r \in {None} \cup { Some(rs) : rs \in BoundedSeq(CoreRules, 1) },
        c \in {None, Some("./src/website")} }

MaxKeys == 2         \* most keys of an account record

ConfigKeys == {"stage", "zone", "port"}
ConfigValues ==
    { JStr("dev"), JStr("dev.example.com"), JStr(""), JNum(0), JNull,
      JArr(<<"eu-west-1", "us-east-1">>) }

\* the records of at most MaxKeys distinct keys
Records ==
    { rec \in BoundedSeq(ConfigKeys \X ConfigValues, MaxKeys) :
        \A i, j \in 1..Len(rec) : rec[i][1] = rec[j][1] => i = j }

OtherRecord == << <<"stage", JStr("prod")>> >>

\* the documents: one or two accounts; the record of the first account id
\* ranges over Records
Mappings ==
    {<<>>, << <<"123456789013", OtherRecord>> >>}
        \cup { << <<"123456789012", r>> >> : r \in Records }
        \cup { << <<"123456789012", r>>, <<"123456789013", OtherRecord>> >> : r \in Records }
        \cup { << <<"123456789013", OtherRecord>>, <<"123456789012", r>> >> : r \in Records }

Source(readable, wellFormed, mapping) ==
    [readable |-> readable, wellFormed |-> wellFormed, mapping |-> mapping]

Sources ==
    {Source(FALSE, FALSE, <<>>), Source(TRUE, FALSE, <<>>)}
        \cup { Source(TRUE, TRUE, m) : m \in Mappings }

AcctProps ==
    { [accountId |-> a, parameterPrefix |-> pre, contextFilePath |-> f] :
        a \in {None, Some("123456789012"), Some("123456789013"), Some("999999999999")},
        pre \in {None, Some(""), Some("/my-app/config")},
        f \in {None} }

NoProps == Props(<<>>, None, None, None, None, None, None)
NoAcctProps == [accountId |-> None, parameterPrefix |-> None, contextFilePath |-> None]

\* the state when the constructors are entered with props p and ap, reading
\* the context file src; "idle" is a constructor that is not called
Start(p, wpc, ap, src, start) ==
    /\ props = p
    /\ pc = wpc
    /\ ruleIdx = 0
    /\ wafRules = <<>>
    /\ graph = <<>>
    /\ hostedZone = None
    /\ bucket = None
    /\ logsBucket = None
    /\ ipSets = <<>>
    /\ webAcl = None
    /\ distribution = None
    /\ deployment = None
    /\ outputs = <<>>
    /\ aprops = ap
    /\ stackAccount = "123456789012"
    /\ source = src
    /\ apc = start
    /\ accountId = ""
    /\ parameterPrefix = ""
    /\ config = <<>>
    /\ uploadIdx = 0
    /\ parameters = <<>>
    /\ aoutputs = <<>>
    /\ thrown = None
    /\ ret = NoRet

Init == \E p \in WebProps : Start(p, "zone", NoAcctProps, Source(FALSE, FALSE, <<>>), "idle")
RuleInit == \E p \in RuleProps : Start(p, "zone", NoAcctProps, Source(FALSE, FALSE, <<>>), "idle")
AcctInit == \E ap \in AcctProps, src \in Sources : Start(NoProps, "idle", ap, src, "begin")

Spec == Init /\ [][WebNext]_vars
RuleSpec == RuleInit /\ [][WebNext]_vars
DomainInit ==
    \E p \in DomainProps : Start(p, "zone", NoAcctProps, Source(FALSE, FALSE, <<>>), "idle")
DomainSpec == DomainInit /\ [][WebNext]_vars
AcctSpec == AcctInit /\ [][AcctNext]_vars

----------------------------------------------------------------------------
(* Properties of SecureWebsite                                             *)

\* the resources of a kind declared so far
OfKind(kind) == { i \in 1..Len(graph) : graph[i].kind = kind }
OutputNames == { outputs[i].name : i \in 1..Len(outputs) }

\* C1: at every moment of the constructor, every construct declared so far
\* refers only to constructs declared before it: the declaration order is a
\* topological order of the reference edges.
C1_TopologicalOrder ==
    \A i \in 1..Len(graph) :
        \A r \in graph[i].refs :
            \E j \in 1..(i - 1) : graph[j].id = r

\* C1 witness: a finished constructor that declared two address sets, the
\* firewall, the log store and the content sync
C1_Witness ==
    /\ pc = "done"
    /\ Cardinality(OfKind("ipset")) = 2
    /\ Cardinality(OfKind("webacl")) = 1
    /\ IsSome(logsBucket)
    /\ IsSome(deployment)
    /\ \E i \in OfKind("webacl") : Cardinality(graph[i].refs) = 2

\* C2: with enableWaf explicitly false, whatever the rule list, no firewall
\* and no address set is ever declared, the distribution carries no firewall
\* reference and the outputs hold no firewall reference; with enableWaf true
\* or absent the finished constructor has declared exactly one firewall, and
\* the outputs hold its reference.
C2_FirewallOnlyWhenEnabled ==
    /\ (props.enableWaf = Some(FALSE)) =>
          /\ OfKind("webacl") = {}
          /\ OfKind("ipset") = {}
          /\ webAcl = None
          /\ IsSome(distribution) => Get(distribution).webAclId = None
          /\ "WebAclArn" \notin OutputNames
    /\ (pc = "done" /\ props.enableWaf \in {None, Some(TRUE)}) =>
          /\ Cardinality(OfKind("webacl")) = 1
          /\ IsSome(webAcl)
          /\ Get(distribution).webAclId = Some("arn:WebACL")
          /\ \E i \in 1..Len(outputs) :
                outputs[i].name = "WebAclArn" /\ outputs[i].value = "arn:WebACL"

\* C2 witness: a finished constructor with the firewall switched off although
\* the rule list holds an IP_SET rule
C2_Witness ==
    /\ pc = "done"
    /\ props.enableWaf = Some(FALSE)
    /\ IsSome(props.wafRules)
    /\ \E i \in 1..Len(Get(props.wafRules)) : Get(props.wafRules)[i].ruleType = "IP_SET"
    /\ IsSome(distribution)
    /\ Len(outputs) >= 4

\* the four built-in rules as the firewall must carry them
C3_Builtin ==
    << [name |-> "AWSManagedRulesCommonRuleSet", priority |-> 1, action |-> "block",
        statement |-> [kind |-> "managedRuleGroupStatement", limit |-> 0,
                       name |-> "AWSManagedRulesCommonRuleSet",
                       countryCodes |-> <<>>, arn |-> ""],
        metricName |-> "AWSManagedRulesCommonRuleSet"],
       [name |-> "AWSManagedRulesKnownBadInputsRuleSet", priority |-> 2, action |-> "block",
        statement |-> [kind |-> "managedRuleGroupStatement", limit |-> 0,
                       name |-> "AWSManagedRulesKnownBadInputsRuleSet",
                       countryCodes |-> <<>>, arn |-> ""],
        metricName |-> "AWSManagedRulesKnownBadInputsRuleSet"],
       [name |-> "AWSManagedRulesLinuxRuleSet", priority |-> 3, action |-> "block",
        statement |-> [kind |-> "managedRuleGroupStatement", limit |-> 0,
                       name |-> "AWSManagedRulesLinuxRuleSet",
                       countryCodes |-> <<>>, arn |-> ""],
        metricName |-> "AWSManagedRulesLinuxRuleSet"],
       [name |-> "RateLimitRule", priority |-> 10, action |-> "block",
        statement |-> [kind |-> "rateBasedStatement", limit |-> 2000, name |-> "",
                       countryCodes |-> <<>>, arn |-> ""],
        metricName |-> "RateLimitRule"] >>

\* C3: a declared firewall of a spec without rule list carries exactly the
\* four built-in rules, in order (managed groups common, known-bad-inputs,
\* Linux with priorities 1, 2, 3, then the rate limit of 2000 with priority
\* 10, all blocking); a firewall of a spec with a rule list carries one rule
\* per supplied rule, with the supplied names and priorities, and nothing else.
C3_DefaultRules ==
    IsSome(webAcl) =>
        LET rules == Get(webAcl).rules
        IN  IF props.wafRules = None
            THEN rules = C3_Builtin
            ELSE /\ Len(rules) = Len(Get(props.wafRules))
                 /\ \A i \in 1..Len(rules) :
                       /\ rules[i].name = Get(props.wafRules)[i].name
                       /\ rules[i].priority = Get(props.wafRules)[i].priority

\* C3 witness: a firewall declared from the built-in rules
C3_Witness ==
    /\ pc = "done"
    /\ props.wafRules = None
    /\ IsSome(webAcl)
    /\ Len(Get(webAcl).rules) = 4

\* C4: every declared store (the content store, and the log store when there
\* is one) purges its objects on teardown if and only if its resolved
\* retention policy is destroy.
C4_AutoPurgeIffDestroy ==
    /\ IsSome(bucket) =>
          (Get(bucket).autoDeleteObjects <=> Get(bucket).removalPolicy = "destroy")
    /\ IsSome(logsBucket) =>
          (Get(logsBucket).autoDeleteObjects <=> Get(logsBucket).removalPolicy = "destroy")

\* C9: the ceiling of the statement of every RATE_LIMIT rule is 2000 when the
\* rule gives no limit and exactly L when it gives the limit L.
C9_RateLimitCeiling ==
    \A i \in 1..Len(wafRules) :
        LET rule == RulesArg(props)[i]
            given == IF IsSome(rule.configuration)
                     THEN Get(rule.configuration).limit ELSE None
        IN  rule.ruleType = "RATE_LIMIT" =>
               /\ wafRules[i].statement.kind = "rateBasedStatement"
               /\ wafRules[i].statement.limit =
                     IF given = None THEN 2000 ELSE Get(given)

\* a content source path is supplied: a non-empty string
C10_PathSupplied == props.codeSourcePath \notin {None, Some("")}

\* the site URL of the domains of the model
C10_SiteUrl ==
    IF props.domainName = <<"example", "com">>
    THEN "https://example.com"
    ELSE "https://www.myadvancedsite.example.com"

\* C10: the finished constructor has declared one content sync when a content
\* source path is supplied and none otherwise, and in both cases the outputs
\* hold the site URL https://{domain}, the content-store name, the
\* distribution identifier and the certificate reference.
C10_NoSyncWithoutSource ==
    pc = "done" =>
        /\ Cardinality(OfKind("deployment")) = (IF C10_PathSupplied THEN 1 ELSE 0)
        /\ IsSome(deployment) <=> C10_PathSupplied
        /\ \E i \in 1..Len(outputs) :
              outputs[i].name = "WebsiteUrl" /\ outputs[i].value = C10_SiteUrl
        /\ \E i \in 1..Len(outputs) :
              outputs[i].name = "BucketName" /\ outputs[i].ref = Some("WebsiteBucket")
        /\ \E i \in 1..Len(outputs) :
              outputs[i].name = "DistributionId" /\ outputs[i].ref = Some("Distribution")
        /\ \E i \in 1..Len(outputs) :
              outputs[i].name = "CertificateArn" /\ outputs[i].ref = Some("Certificate")

\* C10 witness: a finished constructor of a spec without content source path
C10_Witness ==
    /\ pc = "done"
    /\ props.codeSourcePath = None
    /\ deployment = None
    /\ Len(outputs) >= 4

\* C12: every rule translated so far carries the action its literal maps to
\* (ALLOW to allow, BLOCK to block, COUNT to count, any other literal to
\* allow), its own priority and name, and its name as metric name; once the
\* firewall is declared its rules are these, one per rule of the list; an
\* unknown literal stops no constructor: all its statements are executed.
C12_ActionMappingTotal ==
    /\ \A i \in 1..Len(wafRules) :
          LET rule == RulesArg(props)[i]
          IN  /\ wafRules[i].action =
                    (IF rule.action = "BLOCK" THEN "block"
                     ELSE IF rule.action = "COUNT" THEN "count"
                     ELSE "allow")
              /\ wafRules[i].priority = rule.priority
              /\ wafRules[i].name = rule.name
              /\ wafRules[i].metricName = rule.name
    /\ IsSome(webAcl) =>
          /\ Get(webAcl).rules = wafRules
          /\ Len(wafRules) = Len(RulesArg(props))
    /\ pc \in { Statements[k] : k \in 1..Len(Statements) } \cup {"rules"}

\* C12 witness: a finished constructor whose firewall carries a rule of the
\* unknown action DENY, mapped to allow
C12_Witness ==
    /\ pc = "done"
    /\ IsSome(webAcl)
    /\ Len(Get(webAcl).rules) = 1
    /\ Get(props.wafRules)[1].action = "DENY"
    /\ Get(webAcl).rules[1].action = "allow"

\* C11: with the domain name missing, the constructor fails at its first
\* statement, whether or not a zone identifier is given: once that statement
\* is over the constructor has failed and nothing has been declared.
C11_FailFastWithoutDomain ==
    (props.domainName = <<>> /\ pc # "zone") =>
        /\ pc = "failed"
        /\ graph = <<>>
        /\ hostedZone = None /\ bucket = None /\ distribution = None

\* a zone identifier is given: a non-empty string
C13_ZoneGiven == props.hostedZoneId \notin {None, Some("")}

\* the apex of the domains of the model
C13_Apex ==
    IF props.domainName = <<"localhost">> THEN "localhost" ELSE "example.com"

\* C13: the hosted zone of a spec with a zone identifier is that zone, taken
\* by identifier without lookup; the hosted zone of a spec without one is
\* looked up by the last two labels of the domain name (the whole name when
\* it has fewer); the zone is resolved by the first statement.
C13_ZoneResolution ==
    /\ IsSome(hostedZone) =>
          Get(hostedZone) =
             IF C13_ZoneGiven
             THEN [how |-> "fromHostedZoneId", arg |-> Get(props.hostedZoneId)]
             ELSE [how |-> "fromLookup", arg |-> C13_Apex]
    /\ pc \notin {"zone", "failed"} => IsSome(hostedZone)
    /\ (pc = "failed") => (~C13_ZoneGiven /\ props.domainName = <<>>)

\* C13 witness: www.myadvancedsite.example.com without zone identifier,
\* looked up by example.com
C13_Witness ==
    /\ props.domainName = <<"www", "myadvancedsite", "example", "com">>
    /\ props.hostedZoneId = None
    /\ hostedZone = Some([how |-> "fromLookup", arg |-> "example.com"])

\* the position of the construct of a logical id in the declaration order
\* (0 when it is not declared)
C15_Position(id) ==
    IF \E k \in 1..Len(graph) : graph[k].id = id
    THEN CHOOSE k \in 1..Len(graph) : graph[k].id = id
    ELSE 0

\* the addresses an ip_set rule gives: none when the list or the whole
\* configuration is absent
C15_AddressesGiven(rule) ==
    IF rule.configuration = None THEN <<>>
    ELSE IF Get(rule.configuration).ipAddresses = None THEN <<>>
    ELSE Get(Get(rule.configuration).ipAddresses)

\* C15: in a finished stack with the firewall enabled and pairwise distinct
\* rule names, there are as many address sets as ip_set rules: each ip_set
\* rule has exactly one address set, named after the rule, holding the
\* rule's addresses, declared before the firewall and referenced by the
\* rule's match statement; a rule of another type has none.
C15_OneAddressSetPerIpRule ==
    LET rules == RulesArg(props)
        ipRules == { i \in 1..Len(rules) : rules[i].ruleType = "IP_SET" }
    IN  ( /\ pc = "done"
          /\ WafEnabled(props)
          /\ \A i, j \in 1..Len(rules) : rules[i].name = rules[j].name => i = j )
        =>
        /\ Len(ipSets) = Cardinality(ipRules)
        /\ Cardinality(OfKind("ipset")) = Cardinality(ipRules)
        /\ Len(wafRules) = Len(rules)
        /\ \A i \in 1..Len(rules) :
              LET id == "IPSet-" \o rules[i].name
                  sets == { k \in 1..Len(ipSets) : ipSets[k].id = id }
                  decls == { k \in OfKind("ipset") : graph[k].id = id }
              IN  IF i \in ipRules
                  THEN /\ Cardinality(sets) = 1
                       /\ Cardinality(decls) = 1
                       /\ \A k \in sets :
                             ipSets[k].addresses = C15_AddressesGiven(rules[i])
                       /\ C15_Position(id) < C15_Position("WebACL")
                       /\ id \in graph[C15_Position("WebACL")].refs
                       /\ wafRules[i].statement.kind = "ipSetReferenceStatement"
                       /\ wafRules[i].statement.arn = "arn:" \o id
                  ELSE /\ sets = {}
                       /\ decls = {}
                       /\ wafRules[i].statement.kind # "ipSetReferenceStatement"
                       /\ wafRules[i].statement.arn = ""

\* C15 witness: a finished stack of an ip_set rule with an address and an
\* ip_set rule with an empty address list
C15_Witness ==
    /\ pc = "done"
    /\ IsSome(webAcl)
    /\ Len(ipSets) = 2
    /\ ipSets[1].addresses = <<"10.0.0.0/8">>
    /\ ipSets[2] = [id |-> "IPSet-d", addresses |-> <<>>]
    /\ OfKind("ipset") # {}

----------------------------------------------------------------------------
(* Properties of AccountConfigStack                                        *)

\* the prefix the entries must be published under: the caller's, or the
\* default when the caller gives none (an empty prefix is none)
C5_Prefix ==
    IF aprops.parameterPrefix \in {None, Some("")}
    THEN "/account-config/" \o accountId
    ELSE Get(aprops.parameterPrefix)

\* the JSON text of the non-string values of the model
C5_JsonText(v) ==
    CASE v = JNum(0) -> "0"
      [] v = JNull -> "null"
      [] v = JArr(<<"eu-west-1", "us-east-1">>) -> "[\"eu-west-1\",\"us-east-1\"]"

\* C5: a successful resolution has published exactly one entry per key of
\* the selected record, in key order, and no other; the entry of key k is
\* named prefix/k and holds the value itself when that is a string and its
\* JSON text otherwise.
C5_OneEntryPerKey ==
    apc = "done" =>
        /\ Len(parameters) = Len(config)
        /\ \A i \in 1..Len(config) :
              LET k == config[i][1]
                  v == config[i][2]
              IN  /\ parameters[i].key = k
                  /\ parameters[i].parameterName = C5_Prefix \o "/" \o k
                  /\ parameters[i].stringValue =
                        IF v.t = "string" THEN v.s ELSE C5_JsonText(v)

\* C5 witness: the record {stage: dev, zone: dev.example.com} of account
\* 123456789012 published under the default prefix
C5_Witness ==
    /\ apc = "done"
    /\ aprops.parameterPrefix = None
    /\ config = << <<"stage", JStr("dev")>>, <<"zone", JStr("dev.example.com")>> >>
    /\ [i \in 1..Len(parameters) |-> parameters[i].parameterName]
          = << "/account-config/123456789012/stage", "/account-config/123456789012/zone" >>

\* the source was read and parsed, and the account has been looked up
C6_Selected ==
    source.readable /\ source.wellFormed /\ apc \in {"upload", "done", "failed"}

C6_IsAccountNotFound(e) ==
    e.message[1] = "No configuration found for account ID '"

C7_SourceFailed == apc = "failed" /\ (~source.readable \/ ~source.wellFormed)

\* what identifies the kind of an error: its name, its code and the head of
\* its message
C7_Class(e) == <<e.name, e.code, e.message[1]>>

C8_GetConfigValue ==
    /\ [](ret.op = "getConfigValue" =>
            /\ ret.err = None
            /\ IF \E i \in 1..Len(config) : config[i][1] = ret.key
               THEN \E i \in 1..Len(config) : config[i] = <<ret.key, ret.value>>
               ELSE ret.value = ret.dflt)
    /\ [][apc = "done" => /\ config' = config
                          /\ parameters' = parameters
                          /\ aoutputs' = aoutputs]_vars

\* C8 witness: getConfigValue with a default on a key whose value is 0
C8_Witness ==
    /\ ret.op = "getConfigValue"
    /\ ret.dflt = JStr("fallback")
    /\ ret.value = JNum(0)
    /\ \E i \in 1..Len(config) : config[i] = <<ret.key, JNum(0)>>

\* C14: getParameter, hasConfig and getAllConfigKeys agree on which keys
\* exist: hasConfig(k) is true exactly for the keys getAllConfigKeys lists,
\* getParameter(k) returns the entry of k exactly for those keys and fails
\* for every other k with the not-found error that lists the published keys.
C14_LookupsAgree ==
    LET keys == getAllConfigKeys(config)
        listed == \E i \in 1..Len(keys) : keys[i] = ret.key
    IN  /\ ret.op = "hasConfig" => (ret.bool <=> listed)
        /\ ret.op = "getParameter" =>
              IF listed
              THEN /\ ret.err = None
                   /\ IsSome(ret.entry)
                   /\ Get(ret.entry).key = ret.key
                   /\ \E i \in 1..Len(parameters) : parameters[i] = Get(ret.entry)
              ELSE /\ ret.entry = None
                   /\ ret.err = Some(ParameterNotFound(ret.key, keys))

====
